---- MODULE Spec2Model ----
(***************************************************************************)
(* A model of w3af's scan strategy, core/controllers/core_helpers/         *)
(* strategy.py: the lifecycle of the stage workers (setup, terminate,      *)
(* teardown), the fuzzable request router and its termination detection,   *)
(* and the hand-over of the stages' exceptions to the exception handler.   *)
(*                                                                         *)
(* The main thread runs start(); every started stage is a thread of its    *)
(* own that interleaves with it.  The stage classes (grep, auth, audit,    *)
(* bruteforce, seed, crawl_infrastructure) and the exception handler are    *)
(* other modules of the repository; their behaviour is modelled from the   *)
(* worker contract of the design document.                                 *)
(***************************************************************************)
EXTENDS Naturals, Sequences, FiniteSets

\* ------------------------------------------------------------------ bounds
\* The largest number of configured targets (cf.cf.get('targets')).
MaxTargets == 1
\* The number of payloads (those of the targets included) created in one scan.
MaxItems == 2
\* The number of ExceptionData objects created in one scan.
MaxReports == 1

\* ------------------------------------------------------------------- names
None == "None"

PluginKinds == {"grep", "auth", "crawl", "infrastructure", "audit", "bruteforce"}
ConsumerRoles == {"grep", "audit", "auth", "discovery", "bruteforce"}
Roles == ConsumerRoles \cup {"seed"}

\* The envelopes a stage puts on its output queue.
POISON_PILL == [kind |-> "pill", id |-> 0]
FuzzableRequest(n) == [kind |-> "item", id |-> n]
Malformed(n) == [kind |-> "bad", id |-> n]
ExceptionData(n) == [kind |-> "exc", id |-> n]

NoError == [kind |-> "none", id |-> 0]
AssertionError == [kind |-> "AssertionError", id |-> 0]
\* The exception of the failed GET or is_404 itself.
BootstrapCause == [kind |-> "Exception", id |-> 0]
\* raise w3afMustStopException(msg % e)
w3afMustStopException == [kind |-> "w3afMustStopException", id |-> 0]
\* The error the exception handler raises for the fatal ExceptionData n.
MustAbort(n) == [kind |-> "MustAbort", id |-> n]

VARIABLES
    plugins,     \* w3af_core.plugins.plugins: is a plugin of the kind enabled
    targets,     \* the number of configured targets
    consumers,   \* self._consumers, the list built by __init__
    handle,      \* handle[r]: the attribute of role r is not None
    running,     \* running[r]: r's thread was started and has not been joined
    pc,          \* the main thread's position in start()
    i,           \* the index of the running for loop of the router
    inq,         \* inq[r]: r's input queue
    busy,        \* busy[r]: r is processing a request
    outq,        \* outq[r]: r's output queue
    ended,       \* ended[r]: r has put POISON_PILL on its output queue
    nitems,      \* payloads created so far
    nreports,    \* ExceptionData objects created so far
    input,       \* _input of the router
    output,      \* output of the router
    other,       \* _other of the router
    finished,    \* finished
    forced,      \* consumer_forced_end
    handled,     \* what handle_exception_data has been called with, in order
    error,       \* the exception that is propagating through start()
    raised,      \* the exception start() raised to its caller
    trace,       \* the calls made by the main thread, in order
    put_log,     \* the in_queue_put calls of the router: <<request, role>>
    routed,      \* the FuzzableRequests the router got from get_result
    owed,        \* roles that were in finished when a request was delivered
                 \* and have not been asked for a result since
    abort_puts,  \* <<Len(put_log)>> once the exception handler raised, else <<>>
    terminate_received   \* the consumers whose terminate() has been called

cfgVars == <<plugins, targets, consumers>>
stageVars == <<inq, busy, outq, ended, nitems, nreports>>
routerVars == <<input, output, other, finished, forced, i>>
sinkVars == <<handled, error, raised, abort_puts>>
routeLog == <<put_log, routed, owed>>
termVars == <<terminate_received>>
vars == <<cfgVars, handle, running, pc, stageVars, routerVars, sinkVars,
          trace, routeLog, termVars>>

Range(s) == {s[k] : k \in 1..Len(s)}

\* filter(None, lst): the entries of lst whose attribute is not None.
FilterNone(lst) == SelectSeq(lst, LAMBDA r : handle[r])

\* ------------------------------------------------------------ construction
Init ==
    /\ plugins \in [PluginKinds -> BOOLEAN]
    /\ targets \in 0..MaxTargets
    /\ consumers = [k \in 1..5 |-> None]
    /\ handle = [r \in Roles |-> r = "seed"]
    /\ running = [r \in Roles |-> FALSE]
    /\ pc = "setup_grep"
    /\ i = 1
    /\ inq = [r \in Roles |-> <<>>]
    /\ busy = [r \in Roles |-> FALSE]
    /\ outq = [r \in Roles |-> <<>>]
    /\ ended = [r \in Roles |-> FALSE]
    /\ nitems = 0
    /\ nreports = 0
    /\ input = <<>>
    /\ output = <<>>
    /\ other = <<>>
    /\ finished = {}
    /\ forced = {}
    /\ handled = <<>>
    /\ error = NoError
    /\ raised = NoError
    /\ trace = <<>>
    /\ put_log = <<>>
    /\ routed = {}
    /\ owed = {}
    /\ abort_puts = <<>>
    /\ terminate_received = {}

\* ------------------------------------------------------------- worker contract
\* has_pending_work(): the stage has requests queued, in progress or buffered
\* for emission.
has_pending_work(r) == inq[r] # <<>> \/ busy[r] \/ outq[r] # <<>>

\* in_queue_put(item) on every role of the sequence dst, in its order.
in_queue_put_all(dst, item) ==
    [r \in Roles |-> IF r \in Range(dst) THEN Append(inq[r], item) ELSE inq[r]]

\* join() returns once the stage's thread has exited: it has ended by itself, or
\* it has taken everything that was queued for it.
JoinReturns(r) == ended[r] \/ (inq[r] = <<>> /\ ~busy[r])

\* ----------------------------------------------------------------- terminate
\* The consumers terminate() calls terminate() on: the entries of
\* self._consumers that are not None.
terminate_targets == Range(consumers) \ {None}

\* terminate(): a consumer whose terminate() is called drops what is queued
\* for it.
terminate ==
    /\ terminate_received' = terminate_received \cup terminate_targets
    /\ inq' = [r \in Roles |-> IF r \in terminate_targets THEN <<>> ELSE inq[r]]

\* stop() (and quit, its alias), called by the user interface at any moment of
\* the scan.
stop ==
    /\ pc \notin {"done", "raised"}
    /\ terminate
    /\ UNCHANGED <<cfgVars, handle, running, pc, busy, outq, ended, nitems,
                   nreports, routerVars, sinkVars, trace, routeLog>>

\* --------------------------------------------------------------------- setup
\* The shape the _setup_* methods share: with a plugin of the kind enabled the
\* consumer is created and started, then `calls` are made on it.
setup(here, enabled, role, calls, next) ==
    /\ pc = here
    /\ pc' = next
    /\ IF enabled
       THEN /\ handle' = [handle EXCEPT ![role] = TRUE]
            /\ running' = [running EXCEPT ![role] = TRUE]
            /\ trace' = trace \o <<(<<"start", role>>)>> \o calls
       ELSE UNCHANGED <<handle, running, trace>>
    /\ UNCHANGED <<targets, consumers, stageVars, routerVars, sinkVars,
                   routeLog, termVars>>

setup_grep ==
    /\ setup("setup_grep", plugins["grep"], "grep", <<>>, "setup_auth")
    /\ UNCHANGED plugins

\* A _setup_auth that starts the consumer and does not force a login.
setup_auth_no_login ==
    /\ setup("setup_auth", plugins["auth"], "auth", <<>>,
             "setup_crawl_infrastructure")
    /\ UNCHANGED plugins

\* _setup_auth
setup_auth ==
    /\ setup("setup_auth", plugins["auth"], "auth",
             <<(<<"force_login", "auth">>)>>, "setup_crawl_infrastructure")
    /\ UNCHANGED plugins

\* discovery_plugins is the list plugins['crawl'] itself, so that extend()
\* leaves the infrastructure plugins in plugins['crawl'] too.
setup_crawl_infrastructure ==
    /\ setup("setup_crawl_infrastructure",
             plugins["crawl"] \/ plugins["infrastructure"], "discovery", <<>>,
             "setup_audit")
    /\ plugins' = [plugins EXCEPT
                      !["crawl"] = plugins["crawl"] \/ plugins["infrastructure"]]

\* A _setup_audit that does not test whether an audit plugin is enabled.
setup_audit_unconditional ==
    /\ setup("setup_audit", TRUE, "audit", <<>>, "setup_bruteforce")
    /\ UNCHANGED plugins

\* _setup_audit
setup_audit ==
    /\ setup("setup_audit", plugins["audit"], "audit", <<>>, "setup_bruteforce")
    /\ UNCHANGED plugins

setup_bruteforce ==
    /\ setup("setup_bruteforce", plugins["bruteforce"], "bruteforce", <<>>,
             "setup_404_detection")
    /\ UNCHANGED plugins

\* _setup_404_detection: a GET and is_404 per target; any failure is raised as
\* a w3afMustStopException.
setup_404_detection ==
    /\ pc = "setup_404_detection"
    /\ \E fails \in BOOLEAN :
          /\ fails => targets > 0
          /\ IF fails
             THEN /\ error' = w3afMustStopException
                  /\ pc' = "except"
             ELSE /\ error' = error
                  /\ pc' = "seed_discovery"
    /\ trace' = Append(trace, <<"404", None>>)
    /\ UNCHANGED <<cfgVars, handle, running, stageVars, routerVars, handled,
                   raised, abort_puts, routeLog, termVars>>

\* The output queue seed_output_queue(targets) leaves: a request per target,
\* followed or not by the poison pill.
SeedQueue(n, pill) ==
    [k \in 1..n |-> FuzzableRequest(k)] \o (IF pill THEN <<POISON_PILL>> ELSE <<>>)

seed_discovery ==
    /\ pc = "seed_discovery"
    /\ \E pill \in BOOLEAN :
          /\ outq' = [outq EXCEPT !["seed"] = SeedQueue(targets, pill)]
          /\ ended' = [ended EXCEPT !["seed"] = pill]
    /\ nitems' = targets
    /\ trace' = Append(trace, <<"seed", "seed">>)
    /\ pc' = "fuzzable_request_router"
    /\ UNCHANGED <<cfgVars, handle, running, inq, busy, nreports, routerVars,
                   sinkVars, routeLog, termVars>>

\* ------------------------------------------------------------------ teardown
\* A join_all_consumers that tears down in the reverse of the startup order.
join_reversed == <<"bruteforce", "audit", "discovery", "auth", "grep">>

\* join_all_consumers: the order of its _teardown_* calls.
join_all_consumers == <<"grep", "audit", "auth", "discovery", "bruteforce">>

\* One _teardown_* call: a consumer that is not None is joined and its
\* attribute cleared.
teardown ==
    /\ pc = "join_all_consumers"
    /\ LET r == join_all_consumers[i] IN
          /\ IF handle[r]
             THEN /\ JoinReturns(r)
                  /\ trace' = Append(trace, <<"join", r>>)
                  /\ handle' = [handle EXCEPT ![r] = FALSE]
                  /\ running' = [running EXCEPT ![r] = FALSE]
             ELSE UNCHANGED <<trace, handle, running>>
          /\ IF i = Len(join_all_consumers)
             THEN pc' = "done" /\ i' = 1
             ELSE pc' = pc /\ i' = i + 1
    /\ UNCHANGED <<cfgVars, stageVars, input, output, other, finished, forced,
                   sinkVars, routeLog, termVars>>

\* A start() that raises an exception of its own in place of the one it caught.
reraise_wrapped(e) == w3afMustStopException

\* The exception start() lets out of its except clause: the one it caught.
reraise(e) == e

\* start()'s except clause: terminate(), then raise.
start_except ==
    /\ pc = "except"
    /\ terminate
    /\ raised' = reraise(error)
    /\ pc' = "raised"
    /\ UNCHANGED <<cfgVars, handle, running, busy, outq, ended, nitems, nreports,
                   routerVars, handled, error, abort_puts, trace, routeLog>>

\* -------------------------------------------------------- exception handling
\* A router that drops the ExceptionData it gets and goes on.
handle_consumer_exception_dropped(e, next) ==
    /\ pc' = next
    /\ UNCHANGED <<handled, error, abort_puts, raised>>

\* _handle_consumer_exception(e), called where the main thread goes on to
\* `next`: the exception handler gets e; it records it, or it raises, and what
\* it raises propagates to start()'s except clause.
handle_consumer_exception(e, next) ==
    /\ handled' = Append(handled, e)
    /\ \E raises \in BOOLEAN :
          IF raises
          THEN /\ error' = MustAbort(e.id)
               /\ abort_puts' = <<Len(put_log)>>
               /\ pc' = "except"
          ELSE /\ UNCHANGED <<error, abort_puts>>
               /\ pc' = next
    /\ UNCHANGED raised

\* The stages the router only asks for exceptions.
RouterOther == FilterNone(<<"auth", "grep">>)

\* One pass of the for loop of _handle_all_consumer_exceptions, and the return
\* after the last.
handle_all_consumer_exceptions ==
    /\ pc = "handle_all_consumer_exceptions"
    /\ IF i > Len(other)
       THEN /\ pc' = "route_one_fuzzable_request_batch"
            /\ i' = 1
            /\ UNCHANGED <<outq, sinkVars>>
       ELSE LET c == other[i] IN
            /\ i' = i + 1
            /\ IF outq[c] = <<>>
               THEN \* TimeoutError or Queue.Empty: pass
                    UNCHANGED <<pc, outq, sinkVars>>
               ELSE /\ outq' = [outq EXCEPT ![c] = Tail(@)]
                    /\ IF Head(outq[c]).kind = "exc"
                       THEN handle_consumer_exception(Head(outq[c]), pc)
                       ELSE UNCHANGED <<pc, sinkVars>>
    /\ UNCHANGED <<cfgVars, handle, running, inq, busy, ended, nitems, nreports,
                   input, output, other, finished, forced, trace, routeLog,
                   termVars>>

\* -------------------------------------------------------------------- router
\* The producers whose results are routed.
RouterInput == FilterNone(<<"seed", "discovery", "bruteforce">>)

\* An output list that leaves out the stage that feeds itself.
RouterOutput_no_discovery == FilterNone(<<"audit", "bruteforce">>)

\* The consumers the routed requests go to.
RouterOutput == FilterNone(<<"audit", "discovery", "bruteforce">>)

\* _fuzzable_request_router up to its while loop.
fuzzable_request_router ==
    /\ pc = "fuzzable_request_router"
    /\ input' = RouterInput
    /\ output' = RouterOutput
    /\ other' = RouterOther
    /\ finished' = {}
    /\ forced' = {}
    /\ i' = 1
    /\ pc' = "handle_all_consumer_exceptions"
    /\ trace' = Append(trace, <<"router", None>>)
    /\ UNCHANGED <<cfgVars, handle, running, stageVars, sinkVars, routeLog,
                   termVars>>

\* A test that adds the sizes of the two sets.
AllAccounted_sum(inp, fin, frc) == Len(inp) = Cardinality(fin) + Cardinality(frc)

\* len(_input) == len(finished | consumer_forced_end)
AllAccounted(inp, fin, frc) == Len(inp) = Cardinality(fin \cup frc)

\* A router that forgets to record the idle producer.
finished_add_nothing(fin, p) == fin

\* finished.add(url_producer)
finished_add(fin, p) == fin \cup {p}

\* A router that keeps only the last producer that sent the poison pill.
forced_add_last(frc, p) == {p}

\* consumer_forced_end.add(url_producer)
forced_add(frc, p) == frc \cup {p}

\* A router that keeps finished as it is when a request was routed.
finished_kept(fin) == fin

\* finished = set(), after a request was routed
finished_after_delivery(fin) == {}

\* A router that takes every empty output queue for the end of the work.
NoPendingWork_unasked(p) == TRUE

\* not url_producer.has_pending_work()
NoPendingWork(p) == ~has_pending_work(p)

\* The batch is in its for loop, at producer input[i].
AtProducer ==
    /\ pc = "route_one_fuzzable_request_batch"
    /\ i <= Len(input)

\* The for loop is over: (finished, consumer_forced_end) is returned and the
\* while loop of the router goes round.
route_return_sets ==
    /\ pc = "route_one_fuzzable_request_batch"
    /\ i > Len(input)
    /\ pc' = "handle_all_consumer_exceptions"
    /\ i' = 1
    /\ UNCHANGED <<cfgVars, handle, running, stageVars, input, output, other,
                   finished, forced, sinkVars, trace, routeLog, termVars>>

\* return (None): the while loop breaks and start() goes on to
\* join_all_consumers.
route_return_None ==
    /\ AtProducer
    /\ AllAccounted(input, finished, forced)
    /\ pc' = "join_all_consumers"
    /\ i' = 1
    /\ UNCHANGED <<cfgVars, handle, running, stageVars, input, output, other,
                   finished, forced, sinkVars, trace, routeLog, termVars>>

\* if url_producer in finished: continue
route_continue ==
    /\ AtProducer
    /\ ~AllAccounted(input, finished, forced)
    /\ input[i] \in finished
    /\ i' = i + 1
    /\ UNCHANGED <<cfgVars, handle, running, pc, stageVars, input, output, other,
                   finished, forced, sinkVars, trace, routeLog, termVars>>

\* get_result is called on input[i].
Polls ==
    /\ AtProducer
    /\ ~AllAccounted(input, finished, forced)
    /\ input[i] \notin finished

\* A router that takes a TimeoutError for the end of the producer's work.
get_result_TimeoutError_finishes ==
    /\ Polls
    /\ outq[input[i]] = <<>>
    /\ owed' = owed \ {input[i]}
    /\ finished' = finished \cup {input[i]}
    /\ i' = i + 1
    /\ UNCHANGED <<cfgVars, handle, running, pc, stageVars, input, output, other,
                   forced, sinkVars, trace, put_log, routed, termVars>>

\* get_result raises TimeoutError: pass.
get_result_TimeoutError ==
    /\ Polls
    /\ outq[input[i]] = <<>>
    /\ owed' = owed \ {input[i]}
    /\ i' = i + 1
    /\ UNCHANGED <<cfgVars, handle, running, pc, stageVars, input, output, other,
                   finished, forced, sinkVars, trace, put_log, routed, termVars>>

\* get_result raises Queue.Empty: has_pending_work is asked next.
get_result_Empty ==
    /\ Polls
    /\ outq[input[i]] = <<>>
    /\ owed' = owed \ {input[i]}
    /\ pc' = "has_pending_work"
    /\ UNCHANGED <<cfgVars, handle, running, stageVars, routerVars, sinkVars,
                   trace, put_log, routed, termVars>>

\* The except Queue.Empty clause.
pending_work_check ==
    /\ pc = "has_pending_work"
    /\ finished' = IF NoPendingWork(input[i])
                   THEN finished_add(finished, input[i])
                   ELSE finished
    /\ pc' = "route_one_fuzzable_request_batch"
    /\ i' = i + 1
    /\ UNCHANGED <<cfgVars, handle, running, stageVars, input, output, other,
                   forced, sinkVars, trace, routeLog, termVars>>

\* The in_queue_put calls made for one request: one per role of output.
FanOut(item) == [k \in 1..Len(output) |-> <<item, output[k]>>]

\* A router that takes whatever payload it is given for a FuzzableRequest.
isinstance_unchecked(obj) == TRUE

\* isinstance(fuzzable_request_inst, FuzzableRequest)
isinstance_FuzzableRequest(obj) == obj.kind = "item"

\* get_result returns result_item: the else clause of the try.
get_result_item ==
    /\ Polls
    /\ outq[input[i]] # <<>>
    /\ LET p == input[i]
           result_item == Head(outq[p])
       IN
       /\ outq' = [outq EXCEPT ![p] = Tail(@)]
       /\ CASE result_item.kind = "pill" ->
                 /\ forced' = forced_add(forced, p)
                 /\ i' = i + 1
                 /\ owed' = owed \ {p}
                 /\ UNCHANGED <<pc, finished, inq, sinkVars, put_log, routed>>
            [] result_item.kind = "exc" ->
                 /\ handle_consumer_exception(result_item, pc)
                 /\ i' = i + 1
                 /\ owed' = owed \ {p}
                 /\ UNCHANGED <<finished, forced, inq, put_log, routed>>
            [] /\ result_item.kind \notin {"pill", "exc"}
               /\ ~isinstance_FuzzableRequest(result_item) ->
                 \* the assertion on the payload's class fails
                 /\ error' = AssertionError
                 /\ pc' = "except"
                 /\ owed' = owed \ {p}
                 /\ UNCHANGED <<i, finished, forced, inq, handled, raised,
                                abort_puts, put_log, routed>>
            [] /\ result_item.kind \notin {"pill", "exc"}
               /\ isinstance_FuzzableRequest(result_item) ->
                 /\ inq' = in_queue_put_all(output, result_item)
                 /\ put_log' = put_log \o FanOut(result_item)
                 /\ routed' = routed \cup {result_item}
                 /\ owed' = (owed \ {p}) \cup finished
                 /\ finished' = finished_after_delivery(finished)
                 /\ i' = i + 1
                 /\ UNCHANGED <<pc, forced, sinkVars>>
    /\ UNCHANGED <<cfgVars, handle, running, busy, ended, nitems, nreports,
                   input, output, other, trace, termVars>>

\* -------------------------------------------------------------------- stages
\* The roles whose results the router routes.
Producers == {"discovery", "bruteforce"}

\* start() has neither returned nor raised.
Scanning == pc \notin {"done", "raised"}

\* A producer takes the next request of its input queue.
stage_take(r) ==
    /\ Scanning
    /\ running[r] /\ ~ended[r] /\ ~busy[r]
    /\ inq[r] # <<>>
    /\ inq' = [inq EXCEPT ![r] = Tail(@)]
    /\ busy' = [busy EXCEPT ![r] = TRUE]
    /\ UNCHANGED <<cfgVars, handle, running, pc, outq, ended, nitems, nreports,
                   routerVars, sinkVars, trace, routeLog, termVars>>

\* What a stage that is done with a request may leave: nothing, or (a
\* producer) a payload on its output queue, or there the ExceptionData of the
\* exception a plugin raised on the request.
Outcomes(r) ==
    {[q |-> outq[r], ni |-> nitems, nr |-> nreports]}
    \cup (IF r \in Producers /\ nitems < MaxItems
          THEN {[q |-> Append(outq[r], e), ni |-> nitems + 1, nr |-> nreports] :
                   e \in {FuzzableRequest(nitems + 1), Malformed(nitems + 1)}}
          ELSE {})
    \cup (IF nreports < MaxReports
          THEN {[q |-> Append(outq[r], ExceptionData(nreports + 1)),
                 ni |-> nitems, nr |-> nreports + 1]}
          ELSE {})

\* A producer is done with the request it took.
stage_done(r) ==
    /\ Scanning
    /\ running[r] /\ busy[r]
    /\ busy' = [busy EXCEPT ![r] = FALSE]
    /\ \E o \in Outcomes(r) :
          /\ outq' = [outq EXCEPT ![r] = o.q]
          /\ nitems' = o.ni
          /\ nreports' = o.nr
    /\ UNCHANGED <<cfgVars, handle, running, pc, inq, ended, routerVars,
                   sinkVars, trace, routeLog, termVars>>

\* The audit stage takes the next request of its input queue and audits it.
\* No other thread reads whether audit is in the middle of a request, so the
\* two steps are taken as one.
stage_audit(r) ==
    /\ Scanning
    /\ running[r]
    /\ inq[r] # <<>>
    /\ inq' = [inq EXCEPT ![r] = Tail(@)]
    /\ \E o \in Outcomes(r) :
          /\ outq' = [outq EXCEPT ![r] = o.q]
          /\ nitems' = o.ni
          /\ nreports' = o.nr
    /\ UNCHANGED <<cfgVars, handle, running, pc, busy, ended, routerVars,
                   sinkVars, trace, routeLog, termVars>>

\* A plugin of grep or auth raised (grep works on the HTTP responses of the
\* whole scan, auth on a timer): the stage puts the ExceptionData on its output
\* queue.
stage_exception(r) ==
    /\ Scanning
    /\ running[r]
    /\ nreports < MaxReports
    /\ nreports' = nreports + 1
    /\ outq' = [outq EXCEPT ![r] = Append(@, ExceptionData(nreports + 1))]
    /\ UNCHANGED <<cfgVars, handle, running, pc, inq, busy, ended, nitems,
                   routerVars, sinkVars, trace, routeLog, termVars>>

\* A producer declares that it will not produce any more.
stage_end(r) ==
    /\ Scanning
    /\ running[r] /\ ~ended[r] /\ ~busy[r]
    /\ outq' = [outq EXCEPT ![r] = Append(@, POISON_PILL)]
    /\ ended' = [ended EXCEPT ![r] = TRUE]
    /\ UNCHANGED <<cfgVars, handle, running, pc, inq, busy, nitems, nreports,
                   routerVars, sinkVars, trace, routeLog, termVars>>

\* ------------------------------------------------------------- specification
MainThread ==
    \/ setup_grep
    \/ setup_auth
    \/ setup_crawl_infrastructure
    \/ setup_audit
    \/ setup_bruteforce
    \/ setup_404_detection
    \/ seed_discovery
    \/ fuzzable_request_router
    \/ handle_all_consumer_exceptions
    \/ route_return_sets
    \/ route_return_None
    \/ route_continue
    \/ get_result_TimeoutError
    \/ get_result_Empty
    \/ pending_work_check
    \/ get_result_item
    \/ teardown
    \/ start_except

Stages ==
    \/ \E r \in Producers : stage_take(r)
    \/ \E r \in Producers : stage_done(r)
    \/ stage_audit("audit")
    \/ \E r \in {"grep", "auth"} : stage_exception(r)
    \/ \E r \in Producers : stage_end(r)

Next == MainThread \/ Stages \/ stop

Spec == Init /\ [][Next]_vars

\* _route_one_fuzzable_request_batch takes _input as a parameter, and
\* filter(None, ...) leaves it empty when no producer attribute is set.  Here
\* the seed producer attribute may be unset as well (a strategy built on this
\* one, or a direct call of the batch function), so that _input may be empty.
InitAnyInput ==
    /\ plugins \in [PluginKinds -> BOOLEAN]
    /\ targets \in 0..MaxTargets
    /\ consumers = [k \in 1..5 |-> None]
    /\ handle \in {[r \in Roles |-> r = "seed" /\ s] : s \in BOOLEAN}
    /\ running = [r \in Roles |-> FALSE]
    /\ pc = "setup_grep"
    /\ i = 1
    /\ inq = [r \in Roles |-> <<>>]
    /\ busy = [r \in Roles |-> FALSE]
    /\ outq = [r \in Roles |-> <<>>]
    /\ ended = [r \in Roles |-> FALSE]
    /\ nitems = 0
    /\ nreports = 0
    /\ input = <<>>
    /\ output = <<>>
    /\ other = <<>>
    /\ finished = {}
    /\ forced = {}
    /\ handled = <<>>
    /\ error = NoError
    /\ raised = NoError
    /\ trace = <<>>
    /\ put_log = <<>>
    /\ routed = {}
    /\ owed = {}
    /\ abort_puts = <<>>
    /\ terminate_received = {}

SpecAnyInput == InitAnyInput /\ [][Next]_vars

\* The thread that runs start() keeps running: no step of it stays possible
\* for ever without being taken.
LiveSpec == Spec /\ WF_vars(MainThread)

\* The scans of the two extreme configurations: no plugin enabled at all, and
\* a plugin of every kind enabled.
InitAllOrNone ==
    /\ Init
    /\ plugins \in {[k \in PluginKinds |-> b] : b \in BOOLEAN}

LiveSpecAllOrNone == InitAllOrNone /\ [][Next]_vars /\ WF_vars(MainThread)

\* -------------------------------------------------------------------- claims
\* The while loop of the router has been left by its break.
RouterReturned == pc \in {"join_all_consumers", "done"}

\* The roles of the trace entries of operation op, in order.
Called(op) ==
    LET sel == SelectSeq(trace, LAMBDA e : e[1] = op)
    IN  [k \in 1..Len(sel) |-> sel[k][2]]

Reverse(s) == [k \in 1..Len(s) |-> s[Len(s) + 1 - k]]

\* The number of in_queue_put calls made with item on role r.
Puts(item, r) == Cardinality({k \in 1..Len(put_log) : put_log[k] = <<item, r>>})

\* C1: the router loop returns only when every producer of _input is in
\* finished or in consumer_forced_end; while one is in neither, it has not
\* returned.
C1_ReturnsOnlyWhenAllAccounted ==
    RouterReturned => Range(input) \subseteq (finished \cup forced)

\* The loop has returned with producers of both kinds: idle ones and one that
\* sent the poison pill.
C1_Witness ==
    /\ RouterReturned
    /\ Len(input) >= 2
    /\ finished # {}
    /\ forced \ finished # {}

\* C2: a producer that was in finished when a request was delivered is asked
\* for a result again before the router loop returns.
C2_ResetCorrectness == RouterReturned => owed = {}

\* A request has been delivered while discovery was in finished, and finished
\* has been reset.
C2_Witness ==
    /\ "discovery" \in owed
    /\ finished = {}
    /\ pc = "route_one_fuzzable_request_batch"

\* C3: the router loop does not return while a producer that has not sent the
\* poison pill has requests queued, in progress or buffered.
C3_NoPrematureTermination ==
    RouterReturned =>
        \A p \in Range(input) : ~ended[p] => ~has_pending_work(p)

\* The loop has returned after the router had put a request of discovery back
\* into discovery, which has worked it off and has not sent the poison pill.
C3_Witness ==
    /\ RouterReturned
    /\ ~ended["discovery"]
    /\ "discovery" \in finished
    /\ \E k \in 1..Len(put_log) :
          put_log[k] = <<FuzzableRequest(2), "discovery">>

\* C6: every request the router got from a producer has been put exactly once
\* into each consumer among audit, discovery and bruteforce that is not None,
\* as it was got, and into no other stage; nothing else has been put.
C6_FanOutComplete ==
    ~RouterReturned =>
        /\ \A item \in routed : \A r \in Roles :
              Puts(item, r) =
                  IF r \in {"audit", "discovery", "bruteforce"} /\ handle[r]
                  THEN 1 ELSE 0
        /\ \A k \in 1..Len(put_log) : put_log[k][1] \in routed

\* A request produced by discovery has been fanned out to three consumers,
\* discovery among them.
C6_Witness ==
    /\ ~RouterReturned
    /\ Len(output) = 3
    /\ FuzzableRequest(2) \in routed
    /\ Puts(FuzzableRequest(2), "discovery") = 1

\* C7: when terminate() has run on start()'s error path, every consumer whose
\* attribute is not None has had its terminate() called.
C7_TerminateReachesLiveStages ==
    pc = "raised" =>
        \A r \in ConsumerRoles : handle[r] => r \in terminate_received

\* C8: once the exception handler has raised, the router puts no further
\* request into any consumer, and start() raises that same exception.
C8_AbortStopsRouting ==
    abort_puts # <<>> =>
        /\ pc \in {"except", "raised"}
        /\ Len(put_log) = abort_puts[1]
        /\ error = MustAbort(handled[Len(handled)].id)
        /\ pc = "raised" => raised = error

\* start() has raised the exception of the handler, after requests had been
\* routed.
C8_Witness ==
    /\ abort_puts # <<>>
    /\ abort_puts[1] > 0
    /\ pc = "raised"

\* C9: when start() has returned, every ExceptionData a stage has put on its
\* output queue has been passed to the exception handler.
C9_EveryReportHandled ==
    pc = "done" =>
        \A n \in 1..nreports : ExceptionData(n) \in Range(handled)

\* C10 as claimed: the consumers are joined in the reverse of the order in
\* which they were started.
C10_TeardownReversesStartup ==
    pc = "done" => Called("join") = Reverse(Called("start"))

\* C10 as amended: the consumers are started in the order grep, auth,
\* discovery, audit, bruteforce and joined in the order grep, audit, auth,
\* discovery, bruteforce, each order taken over the consumers that exist.
C10_TeardownOrder ==
    pc = "done" =>
        LET started == Range(Called("start")) IN
        /\ Called("start") =
              SelectSeq(<<"grep", "auth", "discovery", "audit", "bruteforce">>,
                        LAMBDA r : r \in started)
        /\ Called("join") =
              SelectSeq(<<"grep", "audit", "auth", "discovery", "bruteforce">>,
                        LAMBDA r : r \in started)

\* start() has returned after all five consumers were started and joined.
C10_Witness ==
    /\ pc = "done"
    /\ Len(Called("join")) = 5

Exhausted(p) == ended[p] \/ ~has_pending_work(p)

\* No exception has reached start()'s except clause.
NoFatal == pc \notin {"except", "raised"}

\* C4: if from some point on every producer of _input is exhausted and its
\* empty queue is reported as Queue.Empty, and no exception is raised to
\* start(), the router loop eventually returns.
C4_NoDeadlock ==
    ( /\ <>[](\A p \in Range(input) : Exhausted(p))
      /\ <>[][~get_result_TimeoutError]_vars
      /\ []NoFatal )
    => <>RouterReturned

\* The loop has returned on producers found idle: one that had been taken out
\* of finished by a delivery and was found idle again, none having sent the
\* poison pill.
C4_Witness ==
    /\ RouterReturned
    /\ forced = {}
    /\ Range(input) = finished
    /\ Len(input) >= 2
    /\ routed # {}

\* The number of times x occurs in the sequence s.
Count(s, x) == Cardinality({k \in 1..Len(s) : s[k] = x})

\* C11: when start() has returned or raised, every consumer it started has
\* been joined exactly once and its attribute is None again.
C11_TornDownExactlyOnce ==
    pc \in {"done", "raised"} =>
        \A r \in Range(Called("start")) :
            /\ Count(Called("join"), r) = 1
            /\ ~handle[r]

\* A plugin of the kind the consumer r is made for is enabled.
Configured(r) ==
    IF r = "discovery"
    THEN plugins["crawl"] \/ plugins["infrastructure"]
    ELSE plugins[r]

\* _setup_404_detection has raised: start() is in its except clause, or has
\* raised, before _seed_discovery was called.
BootstrapFailed ==
    /\ pc \in {"except", "raised"}
    /\ Called("404") # <<>>
    /\ Called("seed") = <<>>

TakesResult ==
    /\ Polls
    /\ outq[input[i]] # <<>>
    /\ outq'[input[i]] = Tail(outq[input[i]])

\* C13: when the payload the router gets from a producer is not a
\* FuzzableRequest, an AssertionError is raised to start() and the payload is
\* put into no consumer; no such payload is ever put into a consumer.
C13_MalformedNotForwarded ==
    /\ [](\A k \in 1..Len(put_log) : put_log[k][1].kind = "item")
    /\ [][(TakesResult /\ Head(outq[input[i]]).kind = "bad") =>
              /\ pc' = "except"
              /\ error' = AssertionError
              /\ put_log' = put_log
              /\ inq' = inq]_vars

\* start() has raised the AssertionError of a payload that discovery or
\* bruteforce produced, after a request had been routed.
C13_Witness ==
    /\ pc = "raised"
    /\ raised = AssertionError
    /\ routed # {}

\* No plugin of any kind is enabled.
NoPlugins == \A k \in PluginKinds : ~plugins[k]

\* C14: with no plugin enabled and a bootstrap that does not fail, start()
\* returns without raising, and no consumer is ever created or started
\* (empty queues being reported as Queue.Empty from some point on).
C14_NoPluginsCompletes ==
    ( /\ NoPlugins
      /\ [](error.kind # "w3afMustStopException")
      /\ <>[][~get_result_TimeoutError]_vars )
    => /\ <>(pc = "done")
       /\ [](\A r \in ConsumerRoles : ~handle[r] /\ ~running[r])
       /\ []NoFatal

\* start() has returned with no plugin enabled, after the request of one
\* target went through the router.
C14_Witness ==
    /\ NoPlugins
    /\ pc = "done"
    /\ targets = 1
    /\ routed # {}

\* C15: the router calls get_result on no producer that is in
\* consumer_forced_end, nor on one that is in finished.
C15_ForcedNeverPolledAgain ==
    Polls => input[i] \notin (forced \cup finished)

\* The main thread is inside the while loop of the router.
InRouterLoop ==
    pc \in {"handle_all_consumer_exceptions",
            "route_one_fuzzable_request_batch", "has_pending_work"}

\* C16: inside the router loop finished and consumer_forced_end hold
\* producers of _input only, and no producer is in both.
C16_FinishedForcedDisjoint ==
    InRouterLoop =>
        /\ finished \subseteq Range(input)
        /\ forced \subseteq Range(input)
        /\ finished \cap forced = {}

\* The calls start() makes before the router loop, in order, for the enabled
\* plugins.
StartSequence ==
    LET step(r, calls) == IF Configured(r)
                          THEN <<(<<"start", r>>)>> \o calls
                          ELSE <<>>
    IN  step("grep", <<>>)
        \o step("auth", <<(<<"force_login", "auth">>)>>)
        \o step("discovery", <<>>)
        \o step("audit", <<>>)
        \o step("bruteforce", <<>>)
        \o <<(<<"404", None>>), <<"seed", "seed">>, <<"router", None>>>>

\* C17: what start() has done so far is always a beginning of: grep started,
\* auth started and one login forced, discovery started, audit started,
\* bruteforce started (each if its plugins are enabled), the 404 bootstrap,
\* the seeding, the router; inside the router loop all of it has been done.
C17_SetupOrder ==
    LET done == SelectSeq(trace, LAMBDA e : e[1] # "join") IN
    /\ Len(done) <= Len(StartSequence)
    /\ done = SubSeq(StartSequence, 1, Len(done))
    /\ InRouterLoop => done = StartSequence

\* The router loop runs after all five consumers were started and a login was
\* forced.
C17_Witness ==
    /\ InRouterLoop
    /\ Len(trace) = 9
    /\ trace[3] = <<"force_login", "auth">>

\* C18: a poll that ends in TimeoutError (the for loop goes on to the next
\* producer without has_pending_work being asked) leaves finished,
\* consumer_forced_end and every input queue as they were.
C18_TimeoutChangesNothing ==
    [][(Polls /\ outq[input[i]] = <<>> /\ pc' = pc /\ i' = i + 1) =>
          /\ finished' = finished
          /\ forced' = forced
          /\ inq' = inq]_vars

\* The poll of the seed producer has ended in TimeoutError: the for loop is
\* past the seed, which had nothing to give, and the seed is in neither set
\* (nothing was ever routed, so that finished was never reset).
C18_Witness ==
    /\ pc = "route_one_fuzzable_request_batch"
    /\ i = 2
    /\ Len(input) >= 2
    /\ input[1] = "seed"
    /\ outq["seed"] = <<>>
    /\ "seed" \notin (finished \cup forced)
    /\ routed = {}

\* C19: an ExceptionData the router gets from a producer, on which the
\* exception handler does not raise, is handed to the handler, is put into
\* no consumer, and leaves finished and consumer_forced_end as they were; the
\* for loop goes on with the next producer.  No ExceptionData is handed to
\* the handler twice.
C19_RecoverableReportHandled ==
    /\ [](\A n \in 1..nreports : Count(handled, ExceptionData(n)) <= 1)
    /\ [][(TakesResult /\ Head(outq[input[i]]).kind = "exc" /\ pc' # "except") =>
              /\ handled' = Append(handled, Head(outq[input[i]]))
              /\ put_log' = put_log
              /\ inq' = inq
              /\ finished' = finished
              /\ forced' = forced
              /\ pc' = pc
              /\ i' = i + 1]_vars

\* The exception handler has recorded an ExceptionData that came from a
\* producer (neither grep nor auth exists), a producer being in finished, and
\* the router loop goes on.
C19_Witness ==
    /\ pc = "route_one_fuzzable_request_batch"
    /\ other = <<>>
    /\ handled # <<>>
    /\ error = NoError
    /\ finished # {}

\* The router has taken the poison pill of producer p.
PillTaken(p) == ended[p] /\ POISON_PILL \notin Range(outq[p])

\* C20: no step removes a producer from consumer_forced_end, the step that
\* routes a request (and resets finished) leaves consumer_forced_end as it
\* is, and when the router loop has returned every producer whose poison pill
\* the router took is in consumer_forced_end.
C20_ForcedOnlyGrows ==
    /\ [][/\ forced \subseteq forced'
          /\ routed' # routed => forced' = forced]_vars
    /\ [](RouterReturned =>
             \A p \in Range(input) : PillTaken(p) => p \in forced)

\* A request has been routed, and finished reset, while a producer was in
\* finished and in consumer_forced_end: it is still in consumer_forced_end.
C20_Witness ==
    /\ pc = "route_one_fuzzable_request_batch"
    /\ finished = {}
    /\ owed \cap forced # {}

====
